---------------------------- MODULE Spec2Model ----------------------------
(***************************************************************************)
(* A model of the Firebase -> PostgreSQL user migration.                   *)
(*                                                                         *)
(*   - the Conflict Resolver of main() (src/main.py), one step per         *)
(*     iteration of its loop over the transformed batch;                   *)
(*   - the Deduplicator, UserTransformerService.                           *)
(*     detect_and_remove_duplicates (src/user_transformer.py), together    *)
(*     with the field helpers it calls;                                    *)
(*   - the Batch Transformer, transform_users_dataframe, one step per      *)
(*     call of the Record Transformer, transform_single_user;              *)
(*   - the Loader's per-record load, PostgreSQLLoaderService.              *)
(*     load_users_dataframe (src/postgres_loader.py), one step per insert; *)
(*   - the start of main(), from the construction of the services to the   *)
(*     return of the Batch Transformer;                                    *)
(*   - single calls of the field functions of the transformer and of the   *)
(*     loader, of transform_single_user and of the insert of one row.      *)
(*                                                                         *)
(* Each component has its own specification (SpecResolver, SpecDedupe,     *)
(* SpecTransform, SpecLoad, SpecPipeline, SpecField); `comp` says which    *)
(* one a behaviour exercises, and the variables of the other components    *)
(* keep their initial values.                                              *)
(***************************************************************************)
EXTENDS Integers, Sequences, FiniteSets, TLC

VARIABLES
    comp,                  \* "resolver" | "dedupe" | "transform" | "load" | "pipeline"
    \* ---- Conflict Resolver (main) ----
    existing_data,         \* rows <<id, email>> of the target table
    candidates,            \* the batch handed to the resolver (history, never changed)
    transformed_users_df,  \* main's variable: the batch, replaced by the adjusted batch
    existing_ids,          \* main's list existing_ids (grows with generated ids)
    existing_emails,       \* main's list existing_emails
    new_users_list,        \* main's list new_users_list
    id_changes,            \* main's list id_changes (audit entries)
    ri,                    \* position of the loop over transformed_users_df
    cls,                   \* history: the branch taken for each candidate processed
    pc,                    \* "check" | "loop" | "load" | "returned"
    \* ---- Deduplicator ----
    df_in,                 \* the DataFrame handed to detect_and_remove_duplicates
    keep,                  \* its keep argument
    has_key_column,        \* duplicate_column in df.columns
    has_sort_column,       \* sort_column in df.columns
    df_out,                \* the DataFrame returned
    deduplication_stats,   \* self.deduplication_stats
    dd,                    \* "idle" | "returned" | "raised"
    \* ---- Batch Transformer ----
    raw_users_df,          \* the DataFrame handed to transform_users_dataframe
    remove_duplicates,     \* its remove_duplicates argument
    df_cleaned,            \* its local df_cleaned
    ti,                    \* position of the loop over df_cleaned
    successful_transformations,  \* self.successful_transformations
    failed_transformations,      \* self.failed_transformations
    transformation_errors,       \* self.transformation_errors
    transformed_users,     \* its local transformed_users
    calls,                 \* history: the argument and the result of each transform_single_user call
    tpc,                   \* "idle" | "loop" | "returned" | "raised"
    \* ---- Loader, per-record load ----
    user_table,            \* the rows <<id, email>> of the table public."User"
    table_before,          \* history: its rows when the load began
    table_exists,          \* the table is there
    load_df,               \* the DataFrame handed to load_users_dataframe
    li,                    \* position of the loop over df_clean
    total_processed,       \* load_users_dataframe's local total_processed
    inserted_count,        \* its local inserted_count
    failed_count,          \* its local failed_count
    errors,                \* its local errors
    attempts,              \* history: the row and the outcome of each _insert_single_user call
    lpc,                   \* "idle" | "loop" | "returned"
    \* ---- main, from its start to the return of the Batch Transformer ----
    key_file_exists,       \* the service account key file is there
    source_reachable,      \* the source store answers
    target_reachable,      \* the target store answers
    source_users,          \* what the extraction yields when the source answers
    extracted_df,          \* main's raw_users_df
    source_reads,          \* history: the reads of the source store
    target_connects,       \* history: the connections to the target store
    started_transform,     \* history: the Batch Transformer has been called
    mpc,                   \* main's position, "raised" | "returned" when it has ended
    \* ---- one call of a function of a field, a record or a row ----
    fkind,                 \* what the argument is: "value" | "raw_user" | "user_data"
    farg,                  \* the argument of the call
    fcalled,               \* the function called, "" before the call
    fresult                \* what the call returned

rvars == <<existing_data, candidates, transformed_users_df, existing_ids,
           existing_emails, new_users_list, id_changes, ri, cls, pc>>
dvars == <<df_in, keep, has_key_column, has_sort_column, df_out,
           deduplication_stats, dd>>
tvars == <<raw_users_df, remove_duplicates, df_cleaned, ti,
           successful_transformations, failed_transformations,
           transformation_errors, transformed_users, calls, tpc>>
lvars == <<user_table, table_before, table_exists, load_df, li, total_processed,
           inserted_count, failed_count, errors, attempts, lpc>>
pvars == <<key_file_exists, source_reachable, target_reachable, source_users,
           extracted_df, source_reads, target_connects, started_transform, mpc>>
fvars == <<fkind, farg, fcalled, fresult>>
\* the variables of the components other than the resolver and the Deduplicator
xvars == <<tvars, lvars, pvars, fvars>>
vars  == <<comp, rvars, dvars, xvars>>

-----------------------------------------------------------------------------
(* Bounds *)

\* longest batch handed to the Conflict Resolver
MaxCand == 2
\* longest DataFrame handed to the Deduplicator
MaxRaw == 3

-----------------------------------------------------------------------------
(* Generic list helpers (Python lists are sequences) *)

InList(x, list) == \E i \in DOMAIN list : list[i] = x

Range(list) == {list[i] : i \in DOMAIN list}

SeqsUpTo(S, lo, hi) == UNION {[1..n -> S] : n \in lo..hi}

\* The positions of the set S in increasing order.
Ascending(S) ==
    [k \in 1..Cardinality(S) |-> CHOOSE i \in S : Cardinality({j \in S : j < i}) = k - 1]

\* [list[i] for i in range(len(list)) if i in S]
SelectAt(list, S) == [k \in 1..Cardinality(S) |-> list[Ascending(S)[k]]]

-----------------------------------------------------------------------------
(* Raw field values.  A cell of a raw DataFrame holds a value of any shape; *)
(* a value is a record tagged by k.                                         *)

NoneV == [k |-> "none"]

NaNV == [k |-> "nan"]

NaTV == [k |-> "nat"]

Str(s) == [k |-> "str", s |-> s]

\* A number; n counts thousands (Num(5) is 5000), so that epoch milliseconds fit.
Num(n) == [k |-> "num", n |-> n]

Lst(items) == [k |-> "list", items |-> items]

\* A datetime; t is the instant in thousands of seconds since the epoch.
Dt(t) == [k |-> "dt", t |-> t]

\* The outcome of a call that raises.
Raised == [k |-> "raised"]

\* str.strip() and str.lower() on the strings of the model.
Strip(s) ==
    CASE s = " a@x.com " -> "a@x.com"
      [] s = " " -> ""
      [] s = " nan " -> "nan"
      [] OTHER -> s

Lower(s) ==
    CASE s = "NaN" -> "nan"
      [] s = "NULL" -> "null"
      [] s = "None" -> "none"
      [] s = "NaT" -> "nat"
      [] OTHER -> s

\* str(value)
PyStr(v) ==
    CASE v.k = "str" -> v.s
      [] v.k = "num" -> IF v.n = 0 THEN "0" ELSE ToString(v.n) \o "000"
      [] v.k = "dt" -> "datetime:" \o ToString(v.t)
      [] v.k = "none" -> "None"
      [] v.k = "nat" -> "NaT"
      [] OTHER -> v.k

\* pd.isna(value) on a scalar
IsNaScalar(v) == v.k \in {"none", "nan", "nat"}

\* _safe_isna: a list is NA when all its elements are (an empty list too).
_safe_isna(v) ==
    IF v.k = "list"
    THEN \A i \in DOMAIN v.items : IsNaScalar(v.items[i])
    ELSE IsNaScalar(v)

\* _clean_nan_values: NA becomes None, a mixed list loses its NA elements.
_clean_nan_values(v) ==
    IF _safe_isna(v) THEN NoneV
    ELSE IF v.k = "list"
         THEN Lst(SelectAt(v.items, {i \in DOMAIN v.items : ~_safe_isna(v.items[i])}))
    ELSE v

StringSentinels == {"nan", "null", "none", "", "nat"}

\* _clean_string_field: the value (the first non-NA element of a list) as a
\* stripped string, None when that string is empty or a null word.
_clean_string_field(v) ==
    LET value == _clean_nan_values(v)
    IN  IF value = NoneV THEN NoneV
        ELSE LET item == IF value.k = "list" THEN value.items[1] ELSE value
                 str_value == Strip(PyStr(item))
             IN  IF Lower(str_value) \in StringSentinels THEN NoneV
                 ELSE Str(str_value)

\* What the format loop of lines 109-120, and pd.to_datetime after it, make
\* of the strings of the model: an instant, or 0 when neither parses it.
StrToInstant(s) ==
    CASE s = "2020-01-01" -> 1577836
      [] s = "2021-01-01" -> 1609459
      [] s = "2021-01-01T00:00:00" -> 1609459
      [] OTHER -> 0

\* line 141: a number above 1e10 is taken as milliseconds
MsThreshold == 10000000

\* _parse_datetime: a datetime, None, or the call raises.
_parse_datetime(v) ==
    LET value == _clean_nan_values(v)
    IN  IF value = NoneV THEN NoneV
        \* line 92: the truth value of pd.isna(list) is ambiguous for two
        \* elements or more
        ELSE IF value.k = "list" /\ Len(value.items) >= 2 THEN Raised
        ELSE IF value.k = "dt" THEN value
        ELSE IF value.k = "str"
             THEN IF Lower(Strip(value.s)) \in {"nat", "none", "null", "", "nan"}
                  THEN NoneV
                  ELSE IF StrToInstant(value.s) # 0
                       THEN Dt(StrToInstant(value.s))
                       ELSE NoneV
        ELSE IF value.k = "num" /\ value.n > 0
             THEN IF value.n > MsThreshold
                  THEN Dt(value.n \div 1000)
                  ELSE Dt(value.n)
        ELSE NoneV

\* A key a raw record does not have.
Absent == [k |-> "absent"]

\* raw_user.get(key, default)
Get(raw_user, key, default) ==
    IF key \in DOMAIN raw_user /\ raw_user[key] # Absent THEN raw_user[key] ELSE default

\* bool(value): None, "", 0 and the empty list are false (NaN is true).
Truthy(v) ==
    CASE v.k = "none" -> FALSE
      [] v.k = "str" -> v.s # ""
      [] v.k = "num" -> v.n # 0
      [] v.k = "list" -> v.items # <<>>
      [] OTHER -> TRUE

\* a or b
PyOr(a, b) == IF Truthy(a) THEN a ELSE b

\* str.upper() on the strings of the model.
Upper(s) ==
    CASE s = "banni" -> "BANNI"
      [] s = "inactive" -> "INACTIVE"
      [] OTHER -> s

\* class UserStatus
UserStatus == {"ACTIVE", "INACTIVE", "BANNED"}

\* _normalize_status: the status the mapping gives, ACTIVE for any other word.
_normalize_status(v) ==
    LET value == _clean_nan_values(v)
        status_str == Strip(Upper(PyStr(value)))
    IN  IF value = NoneV THEN "ACTIVE"
        ELSE IF status_str \in {"ACTIVE", "ACTIF", "ENABLED"} THEN "ACTIVE"
        ELSE IF status_str \in {"INACTIVE", "INACTIF", "DISABLED"} THEN "INACTIVE"
        ELSE IF status_str \in {"BANNED", "BANNI", "BLOCKED"} THEN "BANNED"
        ELSE "ACTIVE"

\* value.split(',') on the strings of the model.
SplitComma(s) ==
    CASE s = "music,art" -> <<"music", "art">>
      [] s = "music, ,art" -> <<"music", " ", "art">>
      [] OTHER -> <<s>>

\* _parse_interests: a list gives the strings of its elements that are not
\* NA, a string its comma-separated tokens, anything else None.
_parse_interests(v) ==
    LET value == _clean_nan_values(v)
    IN  IF value = NoneV THEN NoneV
        ELSE IF value.k = "list"
             THEN LET kept == {i \in DOMAIN value.items : ~_safe_isna(value.items[i])}
                      cleaned_list == [j \in 1..Cardinality(kept) |->
                                          Str(PyStr(SelectAt(value.items, kept)[j]))]
                  IN  IF cleaned_list # <<>> THEN Lst(cleaned_list) ELSE NoneV
        ELSE IF value.k = "str"
             THEN LET stripped == Strip(value.s)
                      tokens == SplitComma(stripped)
                      nonempty == {i \in DOMAIN tokens : Strip(tokens[i]) # ""}
                      items == [j \in 1..Cardinality(nonempty) |->
                                   Str(Strip(SelectAt(tokens, nonempty)[j]))]
                  IN  IF stripped = "" \/ Lower(stripped) \in {"nan", "none", "null"}
                      THEN NoneV
                      ELSE IF Len(tokens) > 1
                           THEN IF items # <<>> THEN Lst(items) ELSE NoneV
                           ELSE Lst(<<Str(stripped)>>)
        ELSE NoneV

-----------------------------------------------------------------------------
(* Conflict Resolver: main(), src/main.py lines 107-193                    *)

\* Identifiers assigned by the source store.
SrcIds == {"5", "9"}

\* Identifiers of the shape str(uuid.uuid4())[:20].  uuid4 is random: a call
\* may return any identifier of that shape.  The transformer gives the same
\* shape to a record that has no id (user_transformer.py line 356), so a
\* candidate or a target row may carry such an identifier too.  The pool
\* always holds one identifier more than a run can exclude, as the real
\* identifier space does.
UuidPool == <<"u1", "u2", "u3", "u4", "u5", "u6">>

UuidIds == {UuidPool[i] : i \in 1..(MaxCand + 1)}

Ids == SrcIds \cup UuidIds

Emails == {"b@x.com", "c@x.com", "z@x.com"}

\* The contents of the target table the runs start from: id is its primary
\* key and email is unique.
TargetChoices ==
    { <<>>,
      << <<"5", "b@x.com">> >>,
      << <<"5", "b@x.com">>, <<"9", "z@x.com">> >>,
      << <<"u1", "b@x.com">>, <<"9", "z@x.com">> >> }

\* A transformed batch: records with an id, an email and the other fields.
\* The resolver never reads the other fields; they are one field, name, that
\* carries the record's position in the batch.
CandidateBatches ==
    { [i \in DOMAIN b |-> [id |-> b[i].id, email |-> b[i].email, name |-> i]] :
        b \in SeqsUpTo([id : Ids, email : Emails], 1, MaxCand) }

\* Variant: the first identifier drawn is returned without the test of line 15.
GenerateUnchecked(existing) == UuidIds

\* generate_new_unique_id(existing_ids): the identifiers the loop can return.
generate_new_unique_id(existing) == {u \in UuidIds : ~InList(u, existing)}

IdsOf(list) == [i \in DOMAIN list |-> list[i].id]

\* Variant: the copy is appended without its id being set.
RowNotUpdated(row, new_id) == row

\* lines 149-150: row_copy = row.copy(); row_copy['id'] = new_id
RewrittenRow(row, new_id) == [row EXCEPT !.id = new_id]

\* Variant: old_id read after the id was replaced.
AuditEntryAfterUpdate(row, new_id) ==
    [old_id |-> new_id, new_id |-> new_id, email |-> row.email]

\* line 152: the audit entry appended to id_changes (old_id was read on line 147)
AuditEntry(row, new_id) ==
    [old_id |-> row.id, new_id |-> new_id, email |-> row.email]

\* Variants of the conditions: `or` for `and` in the first, the `not` of the
\* second left out.
Cond1WithOr(row) == InList(row.email, existing_emails) \/ InList(row.id, existing_ids)

Cond2WithoutNot(row) ==
    InList(row.email, existing_emails) /\ InList(row.id, existing_ids)

\* The conditions of the if / elif chain of lines 136-157 on the current row.
Cond1(row) == InList(row.email, existing_emails) /\ InList(row.id, existing_ids)

Cond2(row) == InList(row.email, existing_emails) /\ ~InList(row.id, existing_ids)

Cond3(row) == InList(row.id, existing_ids) /\ ~InList(row.email, existing_emails)

\* The branch taken: an elif is reached only when the conditions before it failed.
Case1Guard(row) == Cond1(row)

Case2Guard(row) == ~Cond1(row) /\ Cond2(row)

\* Variant: the third test as an `if` of its own, on the id alone.
Case3Unchained(row) == InList(row.id, existing_ids)

Case3Guard(row) == ~Cond1(row) /\ ~Cond2(row) /\ Cond3(row)

Case4Guard(row) == ~Cond1(row) /\ ~Cond2(row) /\ ~Cond3(row)

InLoop == comp = "resolver" /\ pc = "loop" /\ ri <= Len(transformed_users_df)

Row == transformed_users_df[ri]

\* The Deduplicator's variables while the resolver is exercised.
DedupeUnused ==
    /\ df_in = <<>>
    /\ keep = "last"
    /\ has_key_column = TRUE
    /\ has_sort_column = TRUE
    /\ df_out = <<>>
    /\ deduplication_stats = <<>>
    /\ dd = "idle"

\* The Batch Transformer's variables while another component is exercised.
TransformUnused ==
    /\ raw_users_df = <<>>
    /\ remove_duplicates = TRUE
    /\ df_cleaned = <<>>
    /\ ti = 1
    /\ successful_transformations = 0
    /\ failed_transformations = 0
    /\ transformation_errors = <<>>
    /\ transformed_users = <<>>
    /\ calls = <<>>
    /\ tpc = "idle"

\* The variables of main's start while another component is exercised.
PipelineUnused ==
    /\ key_file_exists = TRUE
    /\ source_reachable = TRUE
    /\ target_reachable = TRUE
    /\ source_users = <<>>
    /\ extracted_df = <<>>
    /\ source_reads = 0
    /\ target_connects = 0
    /\ started_transform = FALSE
    /\ mpc = "idle"

\* The Loader's variables while another component is exercised.
LoadUnused ==
    /\ user_table = <<>>
    /\ table_before = <<>>
    /\ table_exists = TRUE
    /\ load_df = <<>>
    /\ li = 1
    /\ total_processed = 0
    /\ inserted_count = 0
    /\ failed_count = 0
    /\ errors = <<>>
    /\ attempts = <<>>
    /\ lpc = "idle"

\* The variables of the single calls while another component is exercised.
FieldUnused ==
    /\ fkind = "value"
    /\ farg = NoneV
    /\ fcalled = ""
    /\ fresult = NoneV

InitResolver ==
    /\ comp = "resolver"
    /\ FieldUnused
    /\ DedupeUnused
    /\ TransformUnused
    /\ LoadUnused
    /\ PipelineUnused
    /\ existing_data \in TargetChoices
    /\ candidates \in CandidateBatches
    /\ transformed_users_df = candidates
    /\ existing_ids = <<>>
    /\ existing_emails = <<>>
    /\ new_users_list = <<>>
    /\ id_changes = <<>>
    /\ ri = 1
    /\ cls = <<>>
    /\ pc = "check"

\* lines 110-129 and 174-175: the query succeeds.
CheckExisting ==
    /\ comp = "resolver" /\ pc = "check"
    /\ IF existing_data # <<>>
       THEN /\ existing_emails' = [i \in DOMAIN existing_data |-> existing_data[i][2]]
            /\ existing_ids' = [i \in DOMAIN existing_data |-> existing_data[i][1]]
            /\ pc' = "loop"
       ELSE /\ UNCHANGED <<existing_emails, existing_ids>>
            /\ pc' = "load"
    /\ UNCHANGED <<comp, existing_data, candidates, transformed_users_df,
                   new_users_list, id_changes, ri, cls, dvars, xvars>>

\* Variant: main ends when the query raises.
CheckFailsEndsRun ==
    /\ comp = "resolver" /\ pc = "check"
    /\ pc' = "returned"
    /\ UNCHANGED <<comp, existing_data, candidates, transformed_users_df,
                   existing_ids, existing_emails, new_users_list, id_changes,
                   ri, cls, dvars, xvars>>

\* lines 177-179: the query raises; main proceeds with the batch as it is.
CheckExistingFails ==
    /\ comp = "resolver" /\ pc = "check"
    /\ pc' = "load"
    /\ UNCHANGED <<comp, existing_data, candidates, transformed_users_df,
                   existing_ids, existing_emails, new_users_list, id_changes,
                   ri, cls, dvars, xvars>>

\* lines 136-138
Case1Skip ==
    /\ InLoop /\ Case1Guard(Row)
    /\ ri' = ri + 1
    /\ cls' = Append(cls, "skip")
    /\ UNCHANGED <<comp, existing_data, candidates, transformed_users_df,
                   existing_ids, existing_emails, new_users_list, id_changes,
                   pc, dvars, xvars>>

\* lines 141-143
Case2Skip ==
    /\ InLoop /\ Case2Guard(Row)
    /\ ri' = ri + 1
    /\ cls' = Append(cls, "skip")
    /\ UNCHANGED <<comp, existing_data, candidates, transformed_users_df,
                   existing_ids, existing_emails, new_users_list, id_changes,
                   pc, dvars, xvars>>

\* lines 146-154
Case3Rewrite ==
    /\ InLoop /\ Case3Guard(Row)
    /\ \E new_id \in generate_new_unique_id(existing_ids \o IdsOf(new_users_list)) :
          /\ new_users_list' = Append(new_users_list, RewrittenRow(Row, new_id))
          /\ id_changes' = Append(id_changes, AuditEntry(Row, new_id))
          /\ existing_ids' = Append(existing_ids, new_id)
    /\ ri' = ri + 1
    /\ cls' = Append(cls, "rewrite")
    /\ UNCHANGED <<comp, existing_data, candidates, transformed_users_df,
                   existing_emails, pc, dvars, xvars>>

\* lines 157-159
Case4Insert ==
    /\ InLoop /\ Case4Guard(Row)
    /\ new_users_list' = Append(new_users_list, Row)
    /\ ri' = ri + 1
    /\ cls' = Append(cls, "insert")
    /\ UNCHANGED <<comp, existing_data, candidates, transformed_users_df,
                   existing_ids, existing_emails, id_changes, pc, dvars, xvars>>

\* lines 161-173: the loop is over.
ResolveFinish ==
    /\ comp = "resolver" /\ pc = "loop" /\ ri > Len(transformed_users_df)
    /\ IF new_users_list # <<>>
       THEN /\ transformed_users_df' = new_users_list
            /\ pc' = "load"
       ELSE /\ UNCHANGED transformed_users_df
            /\ pc' = "returned"
    /\ UNCHANGED <<comp, existing_data, candidates, existing_ids, existing_emails,
                   new_users_list, id_changes, ri, cls, dvars, xvars>>

NextResolver ==
    \/ CheckExisting
    \/ CheckExistingFails
    \/ Case1Skip
    \/ Case2Skip
    \/ Case3Rewrite
    \/ Case4Insert
    \/ ResolveFinish

SpecResolver == InitResolver /\ [][NextResolver]_vars

-----------------------------------------------------------------------------
(* Conflict Resolver: properties *)

TargetIds == {existing_data[i][1] : i \in DOMAIN existing_data}

TargetEmails == {existing_data[i][2] : i \in DOMAIN existing_data}

\* The loop over the batch has run to its end.
ResolverDone ==
    comp = "resolver" /\ pc \in {"load", "returned"} /\ Len(cls) = Len(candidates)

\* The batch that leaves the resolver (none when main returns on line 173).
Adjusted == IF pc = "load" THEN transformed_users_df ELSE <<>>

\* The positions, in batch order, of the candidates rewritten so far.
Rewritten == Ascending({i \in DOMAIN cls : cls[i] = "rewrite"})

\* The identifiers generated before candidate i was classified.
GeneratedBefore(i) ==
    {id_changes[k].new_id : k \in {k \in DOMAIN id_changes : Rewritten[k] < i}}

\* The class of a candidate as the target's content alone decides it.
StaticClass(c) ==
    IF c.email \in TargetEmails THEN "skip"
    ELSE IF c.id \in TargetIds THEN "rewrite"
    ELSE "insert"

\* The classes whose branch the current row can take.
ClassesOf(row) ==
    {c \in {"skip", "rewrite", "insert"} :
        \/ c = "skip" /\ (Case1Guard(row) \/ Case2Guard(row))
        \/ c = "rewrite" /\ Case3Guard(row)
        \/ c = "insert" /\ Case4Guard(row)}

\* C1: whatever the existing-identifier and existing-email lists hold, the
\* candidate the loop is at can take the branch of exactly one of skip,
\* rewrite and insert, and every candidate already passed has exactly one
\* class recorded.
C1_ExactlyOneClass ==
    /\ InLoop => Cardinality(ClassesOf(Row)) = 1
    /\ (comp = "resolver" /\ pc = "loop") => Len(cls) = ri - 1
    /\ \A i \in DOMAIN cls : cls[i] \in {"skip", "rewrite", "insert"}

C1_Witness ==
    /\ ResolverDone /\ Len(cls) = 2
    /\ cls[1] = "rewrite" /\ cls[2] = "skip"

\* C2: the identifiers generated so far in the run are pairwise distinct and
\* none of them is an identifier the target held before the run.
C2_GeneratedIdsFresh ==
    /\ \A i, j \in DOMAIN id_changes :
          i # j => id_changes[i].new_id # id_changes[j].new_id
    /\ \A i \in DOMAIN id_changes : id_changes[i].new_id \notin TargetIds

C2_Witness ==
    /\ comp = "resolver" /\ Len(id_changes) = 2
    /\ \E i \in DOMAIN existing_data : existing_data[i][1] \in UuidIds

\* C3: once the loop is over, the adjusted batch holds one record for each
\* candidate whose email is not among the target's emails, and none for a
\* candidate whose email is, whether or not that candidate's id exists.
C3_KeptIffEmailAbsent ==
    ResolverDone =>
        \A i \in DOMAIN candidates :
            Cardinality({j \in DOMAIN Adjusted : Adjusted[j].name = i})
                = IF candidates[i].email \in TargetEmails THEN 0 ELSE 1

C3_Witness ==
    /\ ResolverDone /\ pc = "load" /\ Len(candidates) = 2
    /\ candidates[1].email \in TargetEmails /\ candidates[1].id \notin TargetIds
    /\ candidates[2].email \notin TargetEmails
    /\ Len(Adjusted) = 1 /\ Adjusted[1].name = 2

C5_ClassOrderIndependent ==
    comp = "resolver" =>
        \A i \in DOMAIN cls : cls[i] = StaticClass(candidates[i])

\* C5 amended: skip is decided by the target's content alone, and so is the
\* class of every candidate whose id is in the target; a candidate with
\* neither its id nor its email in the target is inserted, unless its id
\* equals an identifier generated by an earlier rewrite of the run, and then
\* it is rewritten.
C5_ClassUpToGeneratedIds ==
    comp = "resolver" =>
        \A i \in DOMAIN cls :
            LET c == candidates[i]
            IN  IF StaticClass(c) = "insert" /\ c.id \in GeneratedBefore(i)
                THEN cls[i] = "rewrite"
                ELSE cls[i] = StaticClass(c)

C5_Witness ==
    /\ ResolverDone /\ Len(cls) = 2
    /\ cls[1] = "rewrite" /\ cls[2] = "rewrite"
    /\ StaticClass(candidates[2]) = "insert"

\* C6: the audit list holds one entry per rewritten candidate, in batch
\* order, and none for the others; an entry holds the candidate's original
\* id, the id of the record kept for it, and the candidate's email.
C6_AuditEntries ==
    comp = "resolver" =>
        /\ Len(id_changes) = Len(Rewritten)
        /\ \A k \in DOMAIN id_changes :
              LET i == Rewritten[k]
              IN  /\ id_changes[k].old_id = candidates[i].id
                  /\ id_changes[k].email = candidates[i].email
                  /\ \E j \in DOMAIN new_users_list :
                        /\ new_users_list[j].name = i
                        /\ new_users_list[j].id = id_changes[k].new_id

C6_Witness ==
    /\ ResolverDone /\ Len(cls) = 2
    /\ cls[1] = "insert" /\ cls[2] = "rewrite" /\ Len(id_changes) = 1

\* The ids of a batch are pairwise distinct, and so are its emails: what
\* the Batch Transformer returns, with deduplication, for raw records whose
\* ids are pairwise distinct.
PairwiseDistinct(batch) ==
    \A i, j \in DOMAIN batch :
        i # j => batch[i].id # batch[j].id /\ batch[i].email # batch[j].email

\* The lists existing_ids and existing_emails were not assigned: the query
\* raised or the target gave no row.
NothingRead == existing_ids = <<>> /\ existing_emails = <<>>

\* C27: the batch that leaves the resolver for the Loader, when the batch
\* handed to the resolver has pairwise distinct ids and pairwise distinct
\* emails, has pairwise distinct ids, none of them an id of the target, and
\* pairwise distinct emails, none of them an email of the target.
C27_BatchMeetsConstraints ==
    (comp = "resolver" /\ pc = "load" /\ PairwiseDistinct(candidates)) =>
        /\ PairwiseDistinct(transformed_users_df)
        /\ \A i \in DOMAIN transformed_users_df :
              /\ transformed_users_df[i].id \notin TargetIds
              /\ transformed_users_df[i].email \notin TargetEmails

\* C28: when the query for the target's ids and emails raised, or gave no
\* row, the resolver has classified no candidate and the batch goes to the
\* Loader as the transformer returned it: nothing skipped, no id rewritten,
\* no audit entry.
C28_NothingReadNothingChanged ==
    (comp = "resolver" /\ pc # "check" /\ NothingRead) =>
        /\ pc = "load"
        /\ cls = <<>>
        /\ transformed_users_df = candidates
        /\ new_users_list = <<>>
        /\ id_changes = <<>>

C28_Witness ==
    /\ comp = "resolver" /\ pc = "load" /\ NothingRead
    /\ existing_data # <<>>
    /\ Len(candidates) = 2
    /\ candidates[1].email \in TargetEmails
    /\ candidates[2].id \in TargetIds /\ candidates[2].email \notin TargetEmails

-----------------------------------------------------------------------------
(* Deduplicator: UserTransformerService.detect_and_remove_duplicates,      *)
(* src/user_transformer.py lines 236-320                                   *)

\* The cells of the email column of a raw DataFrame.
EmailCells == {Str("NaN"), Str("a@x.com"), Str(" a@x.com "), Str("b@x.com")}

\* The cells of the createdAt column.
DateCells ==
    {NoneV, Str("2020-01-01"), Str("2021-01-01"),
     Lst(<<Str("2020-01-01"), Str("2021-01-01")>>)}

\* Raw DataFrames: the id of a row is its position (the source store's keys
\* are distinct); a column the DataFrame lacks holds None in every row.
RawFrames(has_key, has_sort) ==
    { [i \in DOMAIN f |-> [id |-> i, email |-> f[i].email, createdAt |-> f[i].createdAt]] :
        f \in SeqsUpTo([email : IF has_key THEN EmailCells ELSE {NoneV},
                        createdAt : IF has_sort THEN DateCells ELSE {NoneV}],
                       0, MaxRaw) }

\* lines 246-249: the key column cleaned, the rows whose key is None dropped.
CleanedKeys(df) == [i \in DOMAIN df |-> [df[i] EXCEPT !.email = _clean_string_field(@)]]

\* Variant: the rows without a key are not dropped.
DropNaKeepsAll(df) == df

dropna(df) == SelectAt(df, {i \in DOMAIN df : df[i].email # NoneV})

\* df.duplicated([column], keep=False): the rows whose key another row has.
duplicated(df) ==
    SelectAt(df, {i \in DOMAIN df : \E j \in DOMAIN df : j # i /\ df[j].email = df[i].email})

\* lines 258-274: the statistics of the duplicate groups.
DuplicateStats(duplicates) ==
    [duplicates_found |-> Len(duplicates),
     unique_duplicate_values |-> Cardinality({duplicates[i].email : i \in DOMAIN duplicates}),
     duplicate_details |->
        [v \in {duplicates[i].email : i \in DOMAIN duplicates} |->
            LET dupes == SelectAt(duplicates,
                                  {i \in DOMAIN duplicates : duplicates[i].email = v})
            IN  [count |-> Len(dupes), ids |-> [i \in DOMAIN dupes |-> dupes[i].id]]]]

\* Permutations of 1..n, as sequences.
Perms(n) == {p \in [1..n -> 1..n] : \A i, j \in 1..n : i # j => p[i] # p[j]}

\* Variant: sort_values with the default na_position='last'.
NaLastOrders(parsed) ==
    {p \in Perms(Len(parsed)) :
        \A a, b \in DOMAIN p : a < b =>
            LET x == parsed[p[a]]
                y == parsed[p[b]]
            IN  \/ x # NoneV /\ y = NoneV
                \/ x = NoneV /\ y = NoneV /\ p[a] < p[b]
                \/ x # NoneV /\ y # NoneV /\ x.t <= y.t}

\* df.sort_values('_sort_parsed', na_position='first') with the default
\* kind='quicksort': the rows without a date first, in their order; then the
\* others by date ascending.  quicksort is not stable: rows with equal dates
\* come out in any order.
sort_values(parsed) ==
    {p \in Perms(Len(parsed)) :
        \A a, b \in DOMAIN p : a < b =>
            LET x == parsed[p[a]]
                y == parsed[p[b]]
            IN  \/ x = NoneV /\ y # NoneV
                \/ x = NoneV /\ y = NoneV /\ p[a] < p[b]
                \/ x # NoneV /\ y # NoneV /\ x.t <= y.t}

\* df.drop_duplicates([column], keep=keep): of the rows with one key, the
\* first or the last in the order of df; the order of df is kept.
drop_duplicates(df, kp) ==
    SelectAt(df, {i \in DOMAIN df :
                    \A j \in DOMAIN df : df[j].email = df[i].email =>
                        IF kp = "first" THEN j >= i ELSE j <= i})

\* lines 301-306
RemovalStats(initial_count, final_count, kp) ==
    [initial_count |-> initial_count,
     final_count |-> final_count,
     removed_count |-> initial_count - final_count,
     deduplication_method |-> "keep_" \o kp \o "_by_createdAt"]

\* lines 314-319
NoDuplicateStats(initial_count) ==
    [duplicates_found |-> 0,
     initial_count |-> initial_count,
     final_count |-> initial_count,
     removed_count |-> 0]

\* The outcomes of detect_and_remove_duplicates(df, keep=kp): what it
\* returns or that it raises, and the statistics it leaves.
detect_and_remove_duplicates(df0, kp, has_key, has_sort) ==
    LET initial_count == Len(df0)
        df == IF has_key THEN dropna(CleanedKeys(df0)) ELSE df0
        duplicates == duplicated(df)
        parsed == [i \in DOMAIN df |-> _parse_datetime(df[i].createdAt)]
        Returns(out, stats) == [status |-> "returned", out |-> out, stats |-> stats]
    IN  IF ~has_key
        \* line 252: the column is missing, df.duplicated raises KeyError
        THEN {[status |-> "raised", out |-> <<>>, stats |-> <<>>]}
        ELSE IF duplicates = <<>>
        THEN {Returns(df, NoDuplicateStats(initial_count))}
        ELSE IF kp = "all"
        THEN {Returns(df, DuplicateStats(duplicates))}
        ELSE IF ~has_sort
        THEN LET out == drop_duplicates(df, kp)
             IN  {Returns(out, DuplicateStats(duplicates)
                               @@ RemovalStats(initial_count, Len(out), kp))}
        ELSE IF \E i \in DOMAIN parsed : parsed[i] = Raised
        \* line 283: _parse_datetime raises inside apply
        THEN {[status |-> "raised", out |-> <<>>, stats |-> DuplicateStats(duplicates)]}
        ELSE {LET out == drop_duplicates([i \in DOMAIN df |-> df[p[i]]], kp)
              IN  Returns(out, DuplicateStats(duplicates)
                               @@ RemovalStats(initial_count, Len(out), kp))
              : p \in sort_values(parsed)}

\* The resolver's variables while the Deduplicator is exercised.
ResolverUnused ==
    /\ existing_data = <<>>
    /\ candidates = <<>>
    /\ transformed_users_df = <<>>
    /\ existing_ids = <<>>
    /\ existing_emails = <<>>
    /\ new_users_list = <<>>
    /\ id_changes = <<>>
    /\ ri = 1
    /\ cls = <<>>
    /\ pc = "idle"

InitDedupe ==
    /\ comp = "dedupe"
    /\ FieldUnused
    /\ ResolverUnused
    /\ TransformUnused
    /\ LoadUnused
    /\ PipelineUnused
    /\ keep \in {"first", "last", "all"}
    /\ has_key_column \in BOOLEAN
    /\ has_sort_column \in BOOLEAN
    /\ df_in \in RawFrames(has_key_column, has_sort_column)
    /\ df_out = <<>>
    /\ deduplication_stats = <<>>
    /\ dd = "idle"

\* One call of detect_and_remove_duplicates(df_in, keep=keep).
Dedupe ==
    /\ comp = "dedupe" /\ dd = "idle"
    /\ \E r \in detect_and_remove_duplicates(df_in, keep, has_key_column,
                                            has_sort_column) :
          /\ dd' = r.status
          /\ df_out' = r.out
          /\ deduplication_stats' = r.stats
    /\ UNCHANGED <<comp, rvars, xvars, df_in, keep, has_key_column, has_sort_column>>

NextDedupe == Dedupe

SpecDedupe == InitDedupe /\ [][NextDedupe]_vars

-----------------------------------------------------------------------------
(* Deduplicator: properties *)

\* The call returned and was made with keep = "first" or "last".
Deduped == comp = "dedupe" /\ dd = "returned" /\ keep \in {"first", "last"}

\* The normalized key of an input row (None when it is empty).
KeyOf(row) == _clean_string_field(row.email)

\* The input rows of one key.
Group(key) == {i \in DOMAIN df_in : KeyOf(df_in[i]) = key}

\* The ids of the rows returned for one key.
Survivors(key) == {df_out[j].id : j \in {j \in DOMAIN df_out : df_out[j].email = key}}

\* The parsed order_field of an input row as a number; a row without a
\* parseable one is older than any other.  (A value _parse_datetime raises on
\* is never compared: the call returns only if no group has two members or
\* every row with a key was parsed.)
TimeOf(i) ==
    LET d == IF has_sort_column THEN _parse_datetime(df_in[i].createdAt) ELSE NoneV
    IN  IF d.k = "dt" THEN d.t ELSE -1

\* C7: the output holds exactly one record, a member of the key's group,
\* for every non-empty normalized key of the input, and no record whose key
\* is empty.
C7_OneSurvivorPerKey ==
    Deduped =>
        /\ \A i \in DOMAIN df_in :
              KeyOf(df_in[i]) # NoneV =>
                  /\ Cardinality({j \in DOMAIN df_out : df_out[j].email = KeyOf(df_in[i])}) = 1
                  /\ Survivors(KeyOf(df_in[i])) \subseteq Group(KeyOf(df_in[i]))
        /\ \A j \in DOMAIN df_out :
              /\ df_out[j].email # NoneV
              /\ KeyOf(df_in[df_out[j].id]) = df_out[j].email

C7_Witness ==
    /\ Deduped /\ Len(df_in) = 3
    /\ df_in[1].email = Str("NaN")
    /\ df_in[2].email = Str(" a@x.com ")
    /\ df_in[3].email = Str("a@x.com")
    /\ Len(df_out) = 1

\* C8: of each group, keep = "last" returns a member whose parsed order_field
\* is the greatest of the group and keep = "first" one whose is the smallest,
\* a member without a parseable one counting as the oldest; no other member
\* of the group is returned.
C8_KeepsExtremeOfGroup ==
    Deduped =>
        \A j \in DOMAIN df_out :
            LET i == df_out[j].id
            IN  /\ Survivors(df_out[j].email) = {i}
                /\ \A m \in Group(df_out[j].email) :
                      IF keep = "last" THEN TimeOf(m) <= TimeOf(i)
                                       ELSE TimeOf(m) >= TimeOf(i)

C8_Witness ==
    /\ Deduped /\ keep = "last" /\ has_sort_column /\ Len(df_in) = 3
    /\ Group(Str("a@x.com")) = {1, 2, 3}
    /\ TimeOf(1) > TimeOf(3) /\ TimeOf(3) > TimeOf(2) /\ TimeOf(2) = -1
    /\ Len(df_out) = 1 /\ df_out[1].id = 1

\* C9: among the members of a group whose parsed order_field is equal (or
\* is missing for all of them), keep = "last" returns the one that comes
\* last in the input and keep = "first" the one that comes first.
C9_TiesByInputOrder ==
    Deduped =>
        \A j \in DOMAIN df_out :
            LET i == df_out[j].id
            IN  \A m \in Group(df_out[j].email) :
                    TimeOf(m) = TimeOf(i) =>
                        IF keep = "last" THEN m <= i ELSE m >= i

\* C10: initial_count is the number of input records, final_count the number
\* of records returned, and removed_count their difference.
C10_StatsCounts ==
    Deduped =>
        /\ deduplication_stats.initial_count = Len(df_in)
        /\ deduplication_stats.final_count = Len(df_out)
        /\ deduplication_stats.removed_count = Len(df_in) - Len(df_out)

-----------------------------------------------------------------------------
(* Record Transformer and Batch Transformer: transform_single_user and     *)
(* transform_users_dataframe, src/user_transformer.py lines 322-441        *)

\* longest DataFrame handed to the Batch Transformer
MaxBatch == 2

\* datetime.now(): the run takes place after every instant of the data.
Now == 1700000

\* The values of the keys of a raw record.  The extractor sets id and uid
\* to the key the record has in the source store (firebase_service.py lines
\* 151-152); a record that does not come from it has neither, and no status.
KeyCells ==
    {[id |-> Str("7"), uid |-> Str("7"), status |-> Str("banni")],
     [id |-> Absent, uid |-> Absent, status |-> Absent]}

MailCells == {Str("a@x.com"), Str("")}

ProviderCells == {Str("google.com"), Absent}

CreatedCells ==
    {NoneV, Str("2020-01-01"), Lst(<<Str("2020-01-01"), Str("2021-01-01")>>)}

\* The raw records.
RawRecords ==
    {[id |-> c.key.id, uid |-> c.key.uid, status |-> c.key.status,
      email |-> c.email, provider |-> c.provider, createdAt |-> c.createdAt] :
        c \in [key : KeyCells, email : MailCells, provider : ProviderCells,
               createdAt : CreatedCells]}

\* pd.DataFrame(users_list): a key that some records have is a column, NaN
\* in the rows of the records that lack it; a key no record has is no column.
Cell(users_list, i, key) ==
    IF users_list[i][key] = Absent /\ \E j \in DOMAIN users_list : users_list[j][key] # Absent
    THEN NaNV
    ELSE users_list[i][key]

\* The DataFrames handed to the Batch Transformer; idx is the index label of
\* a row.  main calls it with a DataFrame that is not empty.
RawBatches ==
    { [i \in DOMAIN b |->
          [idx |-> i,
           id |-> Cell(b, i, "id"),
           email |-> Cell(b, i, "email"),
           provider |-> Cell(b, i, "provider"),
           uid |-> Cell(b, i, "uid"),
           createdAt |-> Cell(b, i, "createdAt"),
           status |-> Cell(b, i, "status")]] :
        b \in SeqsUpTo(RawRecords, 1, MaxBatch) }

\* The identifiers uuid4 gives the Record Transformer: any of them; two
\* stand for them here.
TransformUuids == {UuidPool[1], UuidPool[2]}

\* Variant: a run starts with a failure already counted.
ResetLeavesFailure ==
    [transformation_errors |-> <<>>, successful_transformations |-> 0,
     failed_transformations |-> 1, deduplication_stats |-> <<>>]

\* _reset_counters
_reset_counters ==
    [transformation_errors |-> <<>>, successful_transformations |-> 0,
     failed_transformations |-> 0, deduplication_stats |-> <<>>]

\* lines 404-414: every cell through _clean_nan_values
CleanedFrame(df) ==
    [i \in DOMAIN df |->
        [idx |-> df[i].idx,
         id |-> _clean_nan_values(df[i].id),
         email |-> _clean_nan_values(df[i].email),
         provider |-> _clean_nan_values(df[i].provider),
         uid |-> _clean_nan_values(df[i].uid),
         createdAt |-> _clean_nan_values(df[i].createdAt),
         status |-> _clean_nan_values(df[i].status)]]

\* Variant: a missing date stays missing.
OrNothing(d) == d

\* _parse_datetime(...) or datetime.now()
OrNow(d) == IF d = NoneV THEN Dt(Now) ELSE d

\* lines 328-347: the mapping of the fields (a key the raw records of the
\* model do not have reads as None, or as the default of its get).
transformed_data(raw_user) ==
    [id |-> _clean_string_field(Get(raw_user, "id", Str(""))),
     email |-> _clean_string_field(Get(raw_user, "email", Str(""))),
     uid |-> _clean_string_field(Get(raw_user, "uid", NoneV)),
     provider |-> _clean_string_field(Get(raw_user, "provider", Str("CREDENTIALS"))),
     name |-> _clean_string_field(PyOr(Get(raw_user, "name", NoneV),
                                       Get(raw_user, "displayName", NoneV))),
     birthdate |-> _parse_datetime(PyOr(Get(raw_user, "birthDate", NoneV),
                                        Get(raw_user, "birth_date", NoneV))),
     interests |-> _parse_interests(Get(raw_user, "interests", NoneV)),
     createdAt |-> OrNow(_parse_datetime(PyOr(Get(raw_user, "createdAt", NoneV),
                                              Get(raw_user, "created_at", NoneV)))),
     updatedAt |-> OrNow(_parse_datetime(PyOr(Get(raw_user, "updatedAt", NoneV),
                                              Get(raw_user, "updated_at", NoneV)))),
     status |-> _normalize_status(Get(raw_user, "status", NoneV))]

\* line 351
PlaceholderEmail(raw_user) ==
    Str("google_user_" \o PyStr(Get(raw_user, "uid", Str("unknown"))) \o "@placeholder.com")

\* line 350
NeedsPlaceholder(data, raw_user) ==
    data.email = NoneV /\ Get(raw_user, "provider", NoneV) = Str("google.com")

\* line 358: not transformed_data['email']
EmailMissing(data) == data.email = NoneV

\* lines 349-362 without the raise: placeholder email, generated id, default
\* provider.
WithRequiredFields(data, raw_user, uuid) ==
    [data EXCEPT
        !.email = IF NeedsPlaceholder(data, raw_user) THEN PlaceholderEmail(raw_user) ELSE @,
        !.id = IF @ = NoneV THEN Str(uuid) ELSE @,
        !.provider = IF @ = NoneV THEN Str("CREDENTIALS") ELSE @]

\* lines 383-389
error_info(raw_user, message) ==
    [user_id |-> Get(raw_user, "id", Str("unknown")),
     error |-> "Unexpected error: " \o message,
     provider |-> Get(raw_user, "provider", Str("unknown")),
     has_email |-> Truthy(Get(raw_user, "email", NoneV))]

\* transform_single_user(raw_user), uuid being the identifier uuid4 gives:
\* the UserModel returned, or the error entry logged and None returned.
\* (Every field of the model's records is a string, a datetime or None, which
\* UserModel accepts: ValidationError is not raised.)
transform_single_user(raw_user, uuid) ==
    LET data == transformed_data(raw_user)
        user_model == WithRequiredFields(data, raw_user, uuid)
    IN  IF data.birthdate = Raised \/ data.createdAt = Raised \/ data.updatedAt = Raised
        THEN [ok |-> FALSE, user_model |-> NoneV,
              error_info |-> error_info(raw_user, "The truth value of an array with more than one element is ambiguous. Use a.any() or a.all()")]
        ELSE IF EmailMissing(user_model)
        THEN [ok |-> FALSE, user_model |-> NoneV,
              error_info |-> error_info(raw_user, "Email is required but missing")]
        ELSE [ok |-> TRUE, user_model |-> user_model, error_info |-> NoneV]

InitTransform ==
    /\ comp = "transform"
    /\ FieldUnused
    /\ ResolverUnused
    /\ DedupeUnused
    /\ LoadUnused
    /\ PipelineUnused
    /\ raw_users_df \in RawBatches
    /\ remove_duplicates \in BOOLEAN
    /\ df_cleaned = <<>>
    /\ ti = 1
    /\ successful_transformations = 0
    /\ failed_transformations = 0
    /\ transformation_errors = <<>>
    /\ transformed_users = <<>>
    /\ calls = <<>>
    /\ tpc = "idle"

\* transform_users_dataframe, lines 398-423: the counters reset, the cells
\* cleaned, the duplicates removed (keep = 'last'; the DataFrames of the
\* model have the columns email and createdAt).  An exception of
\* detect_and_remove_duplicates leaves transform_users_dataframe.
TransformStart ==
    /\ comp = "transform" /\ tpc = "idle"
    /\ successful_transformations' = _reset_counters.successful_transformations
    /\ failed_transformations' = _reset_counters.failed_transformations
    /\ transformation_errors' = _reset_counters.transformation_errors
    /\ transformed_users' = <<>>
    /\ IF remove_duplicates
       THEN \E r \in detect_and_remove_duplicates(CleanedFrame(raw_users_df),
                                                 "last", TRUE, TRUE) :
               /\ deduplication_stats' = r.stats
               /\ df_cleaned' = r.out
               /\ tpc' = IF r.status = "raised" THEN "raised" ELSE "loop"
       ELSE /\ deduplication_stats' = _reset_counters.deduplication_stats
            /\ df_cleaned' = CleanedFrame(raw_users_df)
            /\ tpc' = "loop"
    /\ UNCHANGED <<comp, rvars, lvars, pvars, fvars, df_in, keep, has_key_column, has_sort_column,
                   df_out, dd, raw_users_df, remove_duplicates, ti, calls>>

InTransformLoop == comp = "transform" /\ tpc = "loop" /\ ti <= Len(df_cleaned)

\* lines 425-431, transform_single_user returning a UserModel (lines 364-366)
TransformSucceeds ==
    /\ InTransformLoop
    /\ \E uuid \in TransformUuids :
          LET r == transform_single_user(df_cleaned[ti], uuid)
          IN  /\ r.ok
              /\ successful_transformations' = successful_transformations + 1
              /\ transformed_users' = Append(transformed_users, r.user_model)
              /\ calls' = Append(calls, [raw_user |-> df_cleaned[ti],
                                         user_model |-> r.user_model])
    /\ ti' = ti + 1
    /\ UNCHANGED <<comp, rvars, lvars, pvars, fvars, dvars, raw_users_df, remove_duplicates, df_cleaned,
                   failed_transformations, transformation_errors, tpc>>

\* lines 425-431, transform_single_user returning None (lines 381-392)
TransformFails ==
    /\ InTransformLoop
    /\ \E uuid \in TransformUuids :
          LET r == transform_single_user(df_cleaned[ti], uuid)
          IN  /\ ~r.ok
              /\ failed_transformations' = failed_transformations + 1
              /\ transformation_errors' = Append(transformation_errors, r.error_info)
              /\ calls' = Append(calls, [raw_user |-> df_cleaned[ti],
                                         user_model |-> NoneV])
    /\ ti' = ti + 1
    /\ UNCHANGED <<comp, rvars, lvars, pvars, fvars, dvars, raw_users_df, remove_duplicates, df_cleaned,
                   successful_transformations, transformed_users, tpc>>

\* lines 437-441: result_df is returned.
TransformFinish ==
    /\ comp = "transform" /\ tpc = "loop" /\ ti > Len(df_cleaned)
    /\ tpc' = "returned"
    /\ UNCHANGED <<comp, rvars, lvars, pvars, fvars, dvars, raw_users_df, remove_duplicates, df_cleaned,
                   ti, successful_transformations, failed_transformations,
                   transformation_errors, transformed_users, calls>>

NextTransform ==
    \/ TransformStart
    \/ TransformSucceeds
    \/ TransformFails
    \/ TransformFinish

SpecTransform == InitTransform /\ [][NextTransform]_vars

-----------------------------------------------------------------------------
(* Record Transformer and Batch Transformer: properties *)

\* The Batch Transformer is past its deduplication step.
Transforming == comp = "transform" /\ tpc \in {"loop", "returned"}

\* The Batch Transformer has returned.
Transformed == comp = "transform" /\ tpc = "returned"

\* The calls of the Record Transformer that failed, that succeeded.
FailedCalls == {k \in DOMAIN calls : calls[k].user_model = NoneV}

SucceededCalls == {k \in DOMAIN calls : calls[k].user_model # NoneV}

\* The email of a raw record is empty.
EmailEmpty(raw_user) == _clean_string_field(Get(raw_user, "email", Str(""))) = NoneV

IsGoogle(raw_user) == Get(raw_user, "provider", NoneV) = Str("google.com")

\* C11: the batch run never raises, and when it returns the Record
\* Transformer has been called once on every record that survived
\* deduplication, in their order, whatever the records hold (a list-valued
\* date included).
C11_BatchNeverAborts ==
    comp = "transform" =>
        /\ tpc # "raised"
        /\ tpc = "returned" =>
              /\ Len(calls) = Len(df_cleaned)
              /\ \A k \in DOMAIN calls : calls[k].raw_user = df_cleaned[k]

\* C12: when the batch run has returned, every raw record with an empty
\* email that is not in the output went through a failed call of the Record
\* Transformer: it has an entry in the error log and is counted in the
\* failure counter.
C12_DroppedRecordsReported ==
    Transformed =>
        LET left_out == {i \in DOMAIN raw_users_df :
                            /\ EmailEmpty(raw_users_df[i])
                            /\ \A k \in SucceededCalls : calls[k].raw_user.idx # i}
        IN  /\ \A i \in left_out : \E k \in FailedCalls : calls[k].raw_user.idx = i
            /\ Cardinality(left_out) <= failed_transformations
            /\ Cardinality(left_out) <= Len(transformation_errors)

\* C13: since the reset, every call of the Record Transformer incremented
\* exactly one counter: successes + failures is the number of calls, the
\* error log has one entry per failure, and the records returned are as many
\* as the successes.
C13_CountersMatchCalls ==
    Transforming =>
        /\ successful_transformations + failed_transformations = Len(calls)
        /\ Len(transformation_errors) = failed_transformations
        /\ Cardinality(FailedCalls) = failed_transformations
        /\ Cardinality(SucceededCalls) = successful_transformations
        /\ Len(transformed_users) = successful_transformations

C13_Witness ==
    /\ Transformed /\ Len(calls) = 2
    /\ successful_transformations = 1 /\ failed_transformations = 1
    /\ calls[1].user_model = NoneV /\ calls[2].user_model # NoneV

\* The date the Record Transformer hands to _parse_datetime for createdAt.
CreatedAtOf(raw_user) ==
    PyOr(Get(raw_user, "createdAt", NoneV), Get(raw_user, "created_at", NoneV))

\* C14: _parse_datetime gives a datetime or None for every value a call of
\* the Record Transformer hands it, a list of any length included; it never
\* raises.
C14_ParseNeverRaises ==
    comp = "transform" =>
        \A k \in DOMAIN calls :
            LET parsed == _parse_datetime(CreatedAtOf(calls[k].raw_user))
            IN  parsed = NoneV \/ parsed.k = "dt"

\* C15: a call of the Record Transformer on a record with an empty email and
\* provider "google.com" succeeds, with the email google_user_<uid>@
\* placeholder.com when the uid of the record is not empty and
\* google_user_unknown@placeholder.com when it is absent or null.
C15_GooglePlaceholder ==
    comp = "transform" =>
        \A k \in DOMAIN calls :
            LET raw_user == calls[k].raw_user
                uid == _clean_string_field(Get(raw_user, "uid", NoneV))
            IN  (EmailEmpty(raw_user) /\ IsGoogle(raw_user)) =>
                    /\ calls[k].user_model # NoneV
                    /\ calls[k].user_model.email =
                          Str("google_user_"
                              \o (IF uid = NoneV THEN "unknown" ELSE uid.s)
                              \o "@placeholder.com")

\* C16: a call of the Record Transformer on a record with an empty email
\* and a provider other than "google.com" returns no record, adds one to the
\* failure counter, leaves the success counter alone and appends one error
\* entry whose reason says that the email is required, whether the record has
\* an id or not.
C16_EmailRequired ==
    [][(InTransformLoop /\ EmailEmpty(df_cleaned[ti]) /\ ~IsGoogle(df_cleaned[ti])) =>
          /\ failed_transformations' = failed_transformations + 1
          /\ successful_transformations' = successful_transformations
          /\ transformed_users' = transformed_users
          /\ Len(transformation_errors') = Len(transformation_errors) + 1
          /\ transformation_errors'[Len(transformation_errors')].error =
                "Unexpected error: Email is required but missing"]_vars

\* C17: every record of the Batch Transformer's output has an id, an email
\* and a provider that are not empty, a createdAt and an updatedAt that are
\* not null, and a status among ACTIVE, INACTIVE, BANNED.
C17_OutputRequiredFields ==
    comp = "transform" =>
        \A j \in DOMAIN transformed_users :
            LET u == transformed_users[j]
            IN  /\ u.id.k = "str" /\ u.id.s # ""
                /\ u.email.k = "str" /\ u.email.s # ""
                /\ u.provider.k = "str" /\ u.provider.s # ""
                /\ u.createdAt.k = "dt"
                /\ u.updatedAt.k = "dt"
                /\ u.status \in UserStatus

C17_Witness ==
    /\ Transformed /\ Len(transformed_users) = 2
    /\ calls[1].raw_user.id = NoneV
    /\ calls[1].raw_user.provider = NoneV
    /\ calls[1].raw_user.createdAt = NoneV
    /\ transformed_users[1].id = Str(UuidPool[2])
    /\ transformed_users[1].provider = Str("CREDENTIALS")
    /\ transformed_users[1].createdAt = Dt(Now)
    /\ transformed_users[1].status = "ACTIVE"
    /\ transformed_users[2].status = "BANNED"
    /\ transformed_users[2].email = Str("google_user_7@placeholder.com")

-----------------------------------------------------------------------------
(* Loader, per-record load: PostgreSQLLoaderService.load_users_dataframe   *)
(* and _insert_single_user, src/postgres_loader.py lines 293-326, 524-605  *)
(*                                                                         *)
(* The batch is a transformed batch (CandidateBatches).  On its columns    *)
(* id, email and name, _clean_dataframe_for_postgres (line 547) and        *)
(* _final_clean_value (line 311) change nothing.                           *)

\* The table has id as primary key and email as unique column (lines
\* 652-653): the INSERT of a row whose id or email a row of the table has is
\* refused.
ViolatesConstraint(row, rows) ==
    \E i \in DOMAIN rows : rows[i][1] = row.id \/ rows[i][2] = row.email

\* Variant: one transaction spans the load, and a failure rolls it back.
RollbackWholeLoad(rows, before) == before

\* line 298, `with conn.begin()`: the transaction of one INSERT is rolled
\* back when the INSERT raises; rows is the table when it began, before the
\* table when the load began.
Rollback(rows, before) == rows

\* _insert_single_user(row) on a table with these rows: it commits the row,
\* or it raises and its transaction is rolled back.  A driver-level failure
\* (connection lost, timeout) is possible for any row.
_insert_single_user(row, rows, before, exists) ==
    {[ok |-> FALSE, rows |-> Rollback(rows, before), error |-> "OperationalError"]}
    \cup
    (IF ~exists
     THEN {[ok |-> FALSE, rows |-> Rollback(rows, before), error |-> "UndefinedTable"]}
     ELSE IF ViolatesConstraint(row, rows)
     THEN {[ok |-> FALSE, rows |-> Rollback(rows, before), error |-> "UniqueViolation"]}
     ELSE {[ok |-> TRUE, rows |-> Append(rows, <<row.id, row.email>>), error |-> ""]})

\* Variant: the failure is printed but not recorded.
ErrorNotRecorded(errs, row, error) == errs

\* lines 570-574
WithErrorInfo(errs, row, error) ==
    Append(errs, [user_id |-> row.id, error |-> error])

\* ",".join(f"'{item}'" for item in escaped_items); no string of the model
\* holds a quote, so line 343 escapes nothing.
QuotedJoin(escaped_items) ==
    LET joined[n \in 0..Len(escaped_items)] ==
            IF n = 0 THEN ""
            ELSE IF n = 1 THEN "'" \o escaped_items[1] \o "'"
            ELSE joined[n - 1] \o ",'" \o escaped_items[n] \o "'"
    IN  joined[Len(escaped_items)]

\* line 349: value.startswith('{') and value.endswith('}')
LooksFormatted(s) == s = "{music}"

\* _format_array_for_postgres: the text of a list or of a string, None for
\* None, for the empty list and for a value of any other type.
_format_array_for_postgres(value) ==
    IF value = NoneV \/ (value.k = "list" /\ Len(value.items) = 0) THEN NoneV
    ELSE IF value.k = "list"
    THEN Str("{" \o QuotedJoin([i \in DOMAIN value.items |->
                                  IF value.items[i] # NoneV
                                  THEN PyStr(value.items[i]) ELSE ""]) \o "}")
    ELSE IF value.k = "str"
    THEN IF LooksFormatted(Strip(value.s)) THEN Str(Strip(value.s))
         ELSE Str("{'" \o Strip(value.s) \o "'}")
    ELSE NoneV

\* ultra_clean_datetime (lines 155-196): None for a null and for a null
\* word, a datetime as it is, a string as pd.to_datetime reads it.
ultra_clean_datetime(val) ==
    IF IsNaScalar(val) THEN NoneV
    ELSE IF Strip(Lower(PyStr(val))) \in {"nat", "none", "null", "", "nan"} THEN NoneV
    ELSE IF val.k = "dt" THEN val
    ELSE IF val.k = "str" /\ StrToInstant(val.s) # 0 THEN Dt(StrToInstant(val.s))
    ELSE NoneV

\* line 149
datetime_columns == {"createdAt", "updatedAt", "birthdate", "lastConnexion"}

\* _clean_dataframe_for_postgres on the columns of the model: the datetime
\* columns through ultra_clean_datetime, interests through
\* _format_array_for_postgres, the string columns as they are (they hold no
\* NaN).
_clean_dataframe_for_postgres(df) ==
    [i \in DOMAIN df |->
        [key \in DOMAIN df[i] |->
            IF key \in datetime_columns THEN ultra_clean_datetime(df[i][key])
            ELSE IF key = "interests" THEN _format_array_for_postgres(df[i][key])
            ELSE df[i][key]]]

\* _final_clean_value: None for a null and for a value whose string is a
\* null word, the value otherwise.
_final_clean_value(value) ==
    IF IsNaScalar(value) THEN NoneV
    ELSE IF Strip(Lower(PyStr(value))) \in {"nat", "none", "null", "", "nan"} THEN NoneV
    ELSE value

\* line 300
problematic_columns == {"birthdate"}

\* lines 302-316: the parameters of the INSERT, one per column that is not
\* left out and whose cleaned value is not None.
clean_params(user_data) ==
    [key \in {k \in DOMAIN user_data :
                k \notin problematic_columns /\ _final_clean_value(user_data[k]) # NoneV} |->
        _final_clean_value(user_data[key])]

\* The row the INSERT of lines 321-326 stores, which a SELECT of the row
\* gives back: the parameters in their columns, and NULL in the nullable
\* columns the INSERT does not name (lines 655-669).
StoredRow(user_data) ==
    [key \in DOMAIN user_data |->
        IF key \in DOMAIN clean_params(user_data)
        THEN clean_params(user_data)[key]
        ELSE NoneV]

InitLoad ==
    /\ comp = "load"
    /\ FieldUnused
    /\ ResolverUnused
    /\ DedupeUnused
    /\ TransformUnused
    /\ PipelineUnused
    /\ \/ table_exists = TRUE /\ user_table \in TargetChoices
       \/ table_exists = FALSE /\ user_table = <<>>
    /\ table_before = user_table
    /\ load_df \in CandidateBatches
    /\ li = 1
    /\ total_processed = 0
    /\ inserted_count = 0
    /\ failed_count = 0
    /\ errors = <<>>
    /\ attempts = <<>>
    /\ lpc = "idle"

\* lines 528-555: the table is looked for and, if it is not there, created
\* (create_user_table returns False when it cannot, it does not raise, and
\* the load goes on); the counters are set.
LoadStart ==
    /\ comp = "load" /\ lpc = "idle"
    /\ IF table_exists THEN UNCHANGED table_exists ELSE table_exists' \in BOOLEAN
    /\ total_processed' = Len(load_df)
    /\ inserted_count' = 0
    /\ failed_count' = 0
    /\ errors' = <<>>
    /\ lpc' = "loop"
    /\ UNCHANGED <<comp, rvars, dvars, tvars, pvars, fvars, user_table, table_before, load_df, li,
                   attempts>>

InLoadLoop == comp = "load" /\ lpc = "loop" /\ li <= Len(load_df)

\* lines 558-566: the insert of the row commits.
InsertSucceeds ==
    /\ InLoadLoop
    /\ \E r \in _insert_single_user(load_df[li], user_table, table_before, table_exists) :
          /\ r.ok
          /\ user_table' = r.rows
          /\ attempts' = Append(attempts, [row |-> load_df[li], ok |-> TRUE, error |-> r.error])
    /\ inserted_count' = inserted_count + 1
    /\ li' = li + 1
    /\ UNCHANGED <<comp, rvars, dvars, tvars, pvars, fvars, table_before, table_exists, load_df,
                   total_processed, failed_count, errors, lpc>>

\* lines 558-561 and 568-575: the insert raises.
InsertFails ==
    /\ InLoadLoop
    /\ \E r \in _insert_single_user(load_df[li], user_table, table_before, table_exists) :
          /\ ~r.ok
          /\ user_table' = r.rows
          /\ errors' = WithErrorInfo(errors, load_df[li], r.error)
          /\ attempts' = Append(attempts, [row |-> load_df[li], ok |-> FALSE, error |-> r.error])
    /\ failed_count' = failed_count + 1
    /\ li' = li + 1
    /\ UNCHANGED <<comp, rvars, dvars, tvars, pvars, fvars, table_before, table_exists, load_df,
                   total_processed, inserted_count, lpc>>

\* lines 577-592: the report is returned.
LoadFinish ==
    /\ comp = "load" /\ lpc = "loop" /\ li > Len(load_df)
    /\ lpc' = "returned"
    /\ UNCHANGED <<comp, rvars, dvars, tvars, pvars, fvars, user_table, table_before, table_exists,
                   load_df, li, total_processed, inserted_count, failed_count,
                   errors, attempts>>

NextLoad ==
    \/ LoadStart
    \/ InsertSucceeds
    \/ InsertFails
    \/ LoadFinish

SpecLoad == InitLoad /\ [][NextLoad]_vars

-----------------------------------------------------------------------------
(* Loader, per-record load: properties *)

Loaded == comp = "load" /\ lpc = "returned"

FailedAttempts == {k \in DOMAIN attempts : ~attempts[k].ok}

\* C18: when the load returns, every record of the batch has been attempted
\* once, in batch order, whatever failed before it; inserted_count +
\* failed_count = total_processed = the size of the batch; errors holds one
\* entry, identifier and message, per failed record, in their order.
C18_EveryRecordAttempted ==
    Loaded =>
        /\ Len(attempts) = Len(load_df)
        /\ \A k \in DOMAIN attempts : attempts[k].row = load_df[k]
        /\ inserted_count + failed_count = total_processed
        /\ total_processed = Len(load_df)
        /\ failed_count = Cardinality(FailedAttempts)
        /\ errors = [j \in 1..Cardinality(FailedAttempts) |->
                        [user_id |-> attempts[Ascending(FailedAttempts)[j]].row.id,
                         error |-> attempts[Ascending(FailedAttempts)[j]].error]]

C18_Witness ==
    /\ Loaded /\ Len(load_df) = 2
    /\ ~attempts[1].ok /\ attempts[1].error = "UniqueViolation"
    /\ attempts[2].ok
    /\ inserted_count = 1 /\ failed_count = 1 /\ Len(errors) = 1

\* C19: at every point of a load the table holds the rows it had before the
\* load followed by the rows of the inserts that succeeded, as many as
\* inserted_count: a failed insert leaves no row and undoes no earlier one.
C19_TableIsBeforePlusInserted ==
    (comp = "load" /\ lpc \in {"loop", "returned"}) =>
        LET done == {k \in DOMAIN attempts : attempts[k].ok}
        IN  /\ Cardinality(done) = inserted_count
            /\ user_table = table_before \o
                  [j \in 1..Cardinality(done) |->
                      <<attempts[Ascending(done)[j]].row.id,
                        attempts[Ascending(done)[j]].row.email>>]

C19_Witness ==
    /\ Loaded /\ Len(load_df) = 2 /\ table_before # <<>>
    /\ attempts[1].ok /\ ~attempts[2].ok
    /\ Len(user_table) = Len(table_before) + 1

\* C30: a load that finds no table and cannot create it returns the failure
\* report, every counter 0 and no error entry, and attempts no insert.
C30_NoInsertWithoutTable ==
    (comp = "load" /\ lpc # "idle" /\ ~table_exists) =>
        /\ lpc = "failure_report"
        /\ attempts = <<>>
        /\ total_processed = 0
        /\ inserted_count = 0
        /\ failed_count = 0
        /\ errors = <<>>

-----------------------------------------------------------------------------
(* The start of main(): src/main.py lines 18-62 and 236-241, with          *)
(* FirebaseUserService.__init__ and get_all_users_raw                      *)
(* (src/firebase_service.py) and PostgreSQLLoaderService.__init__          *)
(* (src/postgres_loader.py lines 16-52).  The keyword arguments of line 41 *)
(* are configuration, which the model does not hold: the loader is         *)
(* constructed the way __init__ constructs it.                             *)

\* most users in the source store
MaxUsers == 2

\* The records get_all_users_raw makes of the users of the source store: id
\* and uid are the user's key; a user with an email has provider
\* CREDENTIALS, one without has google.com and the email the store holds for
\* it, empty or none (lines 151-165).
SourceRecords ==
    {[id |-> Str("7"), uid |-> Str("7"), status |-> Str("banni"),
      email |-> c.email,
      provider |-> IF Truthy(c.email) /\ c.email # Absent
                   THEN Str("CREDENTIALS") ELSE Str("google.com"),
      createdAt |-> c.createdAt] :
        c \in [email : MailCells \cup {Absent}, createdAt : CreatedCells]}

\* The DataFrames get_all_users_raw returns when the source answers (an
\* empty one for a source without users).
ExtractedFrames ==
    { [i \in DOMAIN b |->
          [idx |-> i,
           id |-> Cell(b, i, "id"),
           email |-> Cell(b, i, "email"),
           provider |-> Cell(b, i, "provider"),
           uid |-> Cell(b, i, "uid"),
           createdAt |-> Cell(b, i, "createdAt"),
           status |-> Cell(b, i, "status")]] :
        b \in SeqsUpTo(SourceRecords, 0, MaxUsers) }

\* Variant: the validation looks for the columns only.
ValidateColumnsOnly(df) ==
    \A i \in DOMAIN df : df[i].id # Absent /\ df[i].email # Absent

\* validate_required_fields(df)['is_valid']: the columns id and email are
\* there and hold no null.
validate_required_fields(df) ==
    \A i \in DOMAIN df :
        /\ df[i].id # Absent /\ ~_safe_isna(df[i].id)
        /\ df[i].email # Absent /\ ~_safe_isna(df[i].email)

InitPipeline ==
    /\ comp = "pipeline"
    /\ FieldUnused
    /\ ResolverUnused
    /\ DedupeUnused
    /\ TransformUnused
    /\ LoadUnused
    /\ key_file_exists \in BOOLEAN
    /\ source_reachable \in BOOLEAN
    /\ target_reachable \in BOOLEAN
    /\ source_users \in ExtractedFrames
    /\ extracted_df = <<>>
    /\ source_reads = 0
    /\ target_connects = 0
    /\ started_transform = FALSE
    /\ mpc = "firebase_init"

\* main line 23, FirebaseUserService.__init__: the SDK is initialised from
\* the key file; the source store is not contacted.
FirebaseInit ==
    /\ comp = "pipeline" /\ mpc = "firebase_init"
    /\ key_file_exists
    /\ mpc' = "loader_init"
    /\ UNCHANGED <<comp, rvars, dvars, tvars, lvars, fvars, key_file_exists, source_reachable,
                   target_reachable, source_users, extracted_df, source_reads,
                   target_connects, started_transform>>

\* firebase_service.py lines 25-26 and 50-52: no key file, the constructor
\* raises and main ends.
FirebaseInitRaises ==
    /\ comp = "pipeline" /\ mpc = "firebase_init"
    /\ ~key_file_exists
    /\ mpc' = "raised"
    /\ UNCHANGED <<comp, rvars, dvars, tvars, lvars, fvars, key_file_exists, source_reachable,
                   target_reachable, source_users, extracted_df, source_reads,
                   target_connects, started_transform>>

\* main line 41, PostgreSQLLoaderService.__init__: the engine is created and
\* the connection tested.
LoaderInit ==
    /\ comp = "pipeline" /\ mpc = "loader_init"
    /\ target_reachable
    /\ target_connects' = target_connects + 1
    /\ mpc' = "extract"
    /\ UNCHANGED <<comp, rvars, dvars, tvars, lvars, fvars, key_file_exists, source_reachable,
                   target_reachable, source_users, extracted_df, source_reads,
                   started_transform>>

\* postgres_loader.py lines 39-41 and 50-52: the test fails, the constructor
\* raises again and main ends.
LoaderInitRaises ==
    /\ comp = "pipeline" /\ mpc = "loader_init"
    /\ ~target_reachable
    /\ target_connects' = target_connects + 1
    /\ mpc' = "raised"
    /\ UNCHANGED <<comp, rvars, dvars, tvars, lvars, fvars, key_file_exists, source_reachable,
                   target_reachable, source_users, extracted_df, source_reads,
                   started_transform>>

\* main line 44, get_all_users_raw lines 117-212: the source answers.
Extract ==
    /\ comp = "pipeline" /\ mpc = "extract"
    /\ source_reachable
    /\ source_reads' = source_reads + 1
    /\ extracted_df' = source_users
    /\ mpc' = "extracted"
    /\ UNCHANGED <<comp, rvars, dvars, tvars, lvars, fvars, key_file_exists, source_reachable,
                   target_reachable, source_users, target_connects,
                   started_transform>>

\* get_all_users_raw lines 214-218: the read raises; the exception is
\* printed and an empty DataFrame returned.
ExtractFails ==
    /\ comp = "pipeline" /\ mpc = "extract"
    /\ ~source_reachable
    /\ source_reads' = source_reads + 1
    /\ extracted_df' = <<>>
    /\ mpc' = "extracted"
    /\ UNCHANGED <<comp, rvars, dvars, tvars, lvars, fvars, key_file_exists, source_reachable,
                   target_reachable, source_users, target_connects,
                   started_transform>>

\* main lines 47 and 240-241: "No users found in Firebase."; main returns.
NoUsersFound ==
    /\ comp = "pipeline" /\ mpc = "extracted"
    /\ extracted_df = <<>>
    /\ mpc' = "returned"
    /\ UNCHANGED <<comp, rvars, dvars, tvars, lvars, fvars, key_file_exists, source_reachable,
                   target_reachable, source_users, extracted_df, source_reads,
                   target_connects, started_transform>>

\* main lines 53-56 and 236-239: "Data validation failed"; main returns.
ValidationFails ==
    /\ comp = "pipeline" /\ mpc = "extracted"
    /\ extracted_df # <<>>
    /\ ~validate_required_fields(extracted_df)
    /\ mpc' = "returned"
    /\ UNCHANGED <<comp, rvars, dvars, tvars, lvars, fvars, key_file_exists, source_reachable,
                   target_reachable, source_users, extracted_df, source_reads,
                   target_connects, started_transform>>

\* main lines 53-62: the Batch Transformer is called on the extracted
\* records (its run is the component above).
CallTransform ==
    /\ comp = "pipeline" /\ mpc = "extracted"
    /\ extracted_df # <<>>
    /\ validate_required_fields(extracted_df)
    /\ started_transform' = TRUE
    /\ mpc' = "transform"
    /\ UNCHANGED <<comp, rvars, dvars, tvars, lvars, fvars, key_file_exists, source_reachable,
                   target_reachable, source_users, extracted_df, source_reads,
                   target_connects>>

\* main lines 59-97, the Batch Transformer's run on the extracted records:
\* main ends with the exception of detect_and_remove_duplicates, or goes on
\* to the Loader with the records transformed (line 85), or has none and
\* returns.
AfterTransform ==
    /\ comp = "pipeline" /\ mpc = "transform"
    /\ \E r \in detect_and_remove_duplicates(CleanedFrame(extracted_df),
                                              "last", TRUE, TRUE) :
          mpc' = IF r.status = "raised" THEN "raised"
                 ELSE IF \E i \in DOMAIN r.out :
                            transform_single_user(r.out[i], UuidPool[1]).ok
                      THEN "load"
                      ELSE "returned"
    /\ UNCHANGED <<comp, rvars, dvars, tvars, lvars, fvars, key_file_exists, source_reachable,
                   target_reachable, source_users, extracted_df, source_reads,
                   target_connects, started_transform>>

NextPipeline ==
    \/ FirebaseInit
    \/ FirebaseInitRaises
    \/ LoaderInit
    \/ LoaderInitRaises
    \/ Extract
    \/ ExtractFails
    \/ NoUsersFound
    \/ ValidationFails
    \/ CallTransform
    \/ AfterTransform

SpecPipeline == InitPipeline /\ [][NextPipeline]_vars

-----------------------------------------------------------------------------
(* The start of main(): properties *)

RequiredPresent(df) ==
    \A i \in DOMAIN df :
        /\ df[i].id \notin {Absent, NoneV, NaNV, NaTV}
        /\ df[i].email \notin {Absent, NoneV, NaNV, NaTV}

\* C29: main calls the Batch Transformer, and goes on to the Loader, only in
\* a run whose extracted records all have an id and an email that is not
\* null; with one record whose id or email is null, or without one of the
\* two columns, nothing is transformed and nothing loaded.
C29_TransformOnlyWhenValid ==
    (comp = "pipeline" /\ (started_transform \/ mpc \in {"transform", "load"})) =>
        RequiredPresent(extracted_df)

C29_Witness ==
    /\ comp = "pipeline" /\ mpc = "returned" /\ ~started_transform
    /\ Len(extracted_df) = 2
    /\ extracted_df[1].email = Str("a@x.com")
    /\ extracted_df[2].email = NaNV

-----------------------------------------------------------------------------
(* Single calls: one function of the transformer or of the loader called   *)
(* once, on a field value, on a raw record or on the row of a user.        *)

\* longest list held by a field
MaxItems == 2

\* The elements of the lists.
ItemValues == {NoneV, NaNV, Str(""), Str("nan"), Str("music"), Str("art")}

\* The strings a field holds.
FieldStrings ==
    {"", "nan", "none", "null", "nat", "NaN", "NULL", "None", "NaT", " ", " nan ",
     "music", "music,art", "music, ,art", "{music}"}

\* The values a field of a raw record holds; Absent is a key the record
\* does not have.
FieldValues ==
    {NoneV, NaNV, NaTV, Absent, Num(5), Dt(1577836)}
    \cup {Str(s) : s \in FieldStrings}
    \cup {Lst(items) : items \in SeqsUpTo(ItemValues, 0, MaxItems)}

\* raw_user.get(key): None for a key the record does not have.
Passed(value) == IF value = Absent THEN NoneV ELSE value

\* Raw records that spell the date of birth and the name in the ways a
\* source record can: under the name of the target field and under the
\* spellings lines 338 and 340 read.
AliasRecords ==
    {[email |-> c.email, birthdate |-> c.birthdate, birthDate |-> c.birthDate,
      birth_date |-> c.birth_date, name |-> c.name, displayName |-> c.displayName] :
        c \in [email : MailCells,
               birthdate : {Absent, Str("2020-01-01")},
               birthDate : {Absent, NoneV, Str("2021-01-01")},
               birth_date : {Absent, Str("2021-01-01T00:00:00")},
               name : {Absent, Str(""), Str("Bob")},
               displayName : {Absent, Str("Al")}]}

\* Rows of a transformed batch, the fields of a UserModel: id, email and
\* createdAt always hold a value, the others can be None.
UserRows ==
    [id : {Str("7")}, email : {Str("a@x.com")},
     name : {NoneV, Str("Bob")},
     birthdate : {NoneV, Dt(946684)},
     createdAt : {Dt(1577836), Dt(Now)},
     lastConnexion : {NoneV, Dt(1609459)},
     interests : {NoneV} \cup {Lst(items) : items \in SeqsUpTo({Str("music"), Str("art")}, 1, MaxItems)}]

InitField ==
    /\ comp = "field"
    /\ ResolverUnused
    /\ DedupeUnused
    /\ TransformUnused
    /\ LoadUnused
    /\ PipelineUnused
    /\ \/ fkind = "value" /\ farg \in FieldValues
       \/ fkind = "raw_user" /\ farg \in AliasRecords
       \/ fkind = "user_data" /\ farg \in UserRows
    /\ fcalled = ""
    /\ fresult = NoneV

\* self._safe_isna(raw_user.get(key))
CallSafeIsna ==
    /\ comp = "field" /\ fkind = "value" /\ fcalled = ""
    /\ fcalled' = "_safe_isna"
    /\ fresult' = _safe_isna(Passed(farg))
    /\ UNCHANGED <<comp, rvars, dvars, tvars, lvars, pvars, fkind, farg>>

\* self._clean_nan_values(raw_user.get(key))
CallCleanNanValues ==
    /\ comp = "field" /\ fkind = "value" /\ fcalled = ""
    /\ fcalled' = "_clean_nan_values"
    /\ fresult' = _clean_nan_values(Passed(farg))
    /\ UNCHANGED <<comp, rvars, dvars, tvars, lvars, pvars, fkind, farg>>

\* self._clean_string_field(raw_user.get(key))
CallCleanStringField ==
    /\ comp = "field" /\ fkind = "value" /\ fcalled = ""
    /\ fcalled' = "_clean_string_field"
    /\ fresult' = _clean_string_field(Passed(farg))
    /\ UNCHANGED <<comp, rvars, dvars, tvars, lvars, pvars, fkind, farg>>

\* self._parse_interests(raw_user.get(key))
CallParseInterests ==
    /\ comp = "field" /\ fkind = "value" /\ fcalled = ""
    /\ fcalled' = "_parse_interests"
    /\ fresult' = _parse_interests(Passed(farg))
    /\ UNCHANGED <<comp, rvars, dvars, tvars, lvars, pvars, fkind, farg>>

\* self._format_array_for_postgres(value), value a cell of the column
\* interests (lines 222-223)
CallFormatArray ==
    /\ comp = "field" /\ fkind = "value" /\ fcalled = ""
    /\ farg # Absent
    /\ fcalled' = "_format_array_for_postgres"
    /\ fresult' = _format_array_for_postgres(farg)
    /\ UNCHANGED <<comp, rvars, dvars, tvars, lvars, pvars, fkind, farg>>

\* self.transform_single_user(raw_user)
CallTransformSingleUser ==
    /\ comp = "field" /\ fkind = "raw_user" /\ fcalled = ""
    /\ fcalled' = "transform_single_user"
    /\ \E uuid \in TransformUuids :
          fresult' = transform_single_user(farg, uuid)
    /\ UNCHANGED <<comp, rvars, dvars, tvars, lvars, pvars, fkind, farg>>

\* load_users_dataframe on a batch of one row and a table without rows
\* (lines 547-562: the row cleaned and inserted), then the row read back.
InsertAndReadBack ==
    /\ comp = "field" /\ fkind = "user_data" /\ fcalled = ""
    /\ fcalled' = "_insert_single_user"
    /\ fresult' = StoredRow(_clean_dataframe_for_postgres(<<farg>>)[1])
    /\ UNCHANGED <<comp, rvars, dvars, tvars, lvars, pvars, fkind, farg>>

NextField ==
    \/ CallSafeIsna
    \/ CallCleanNanValues
    \/ CallCleanStringField
    \/ CallParseInterests
    \/ CallFormatArray
    \/ CallTransformSingleUser
    \/ InsertAndReadBack

SpecField == InitField /\ [][NextField]_vars

-----------------------------------------------------------------------------
(* Single calls: properties *)

\* The values the Null Unifier's contract names as empty: absent, null, NaN,
\* NaT and the strings "", "nan", "none", "null", "nat" in any letter case.
NamedEmpty(v) ==
    \/ v \in {Absent, NoneV, NaNV, NaTV}
    \/ v.k = "str" /\ Lower(v.s) \in {"", "nan", "none", "null", "nat"}

\* C21: called on a value that is absent, null, NaN, NaT or one of the
\* strings "", "nan", "none", "null", "nat" in any letter case, _safe_isna
\* returns true and _clean_nan_values returns None.
C21_NamedEmptyIsEmpty ==
    (comp = "field" /\ fkind = "value" /\ NamedEmpty(farg)) =>
        /\ fcalled = "_safe_isna" => fresult = TRUE
        /\ fcalled = "_clean_nan_values" => fresult = NoneV

\* The positions of the elements of a list that are not among the values
\* named as empty.
NonEmptyItems(items) == {i \in DOMAIN items : ~NamedEmpty(items[i])}

\* C22: called on a list, _clean_string_field returns the first element that
\* is not empty (None, NaN and the strings "", "nan", ... are empty), as a
\* stripped string, and None only when the list has no such element.
C22_FirstNonEmptyElement ==
    (comp = "field" /\ fkind = "value" /\ farg.k = "list"
        /\ fcalled = "_clean_string_field") =>
        LET kept == NonEmptyItems(farg.items)
        IN  IF kept = {}
            THEN fresult = NoneV
            ELSE fresult = Str(Strip(PyStr(SelectAt(farg.items, kept)[1])))

\* C23: called on a list, _parse_interests returns the strings of the
\* elements that are not empty, in their order, and None when none is left.
C23_EmptyInterestsDropped ==
    (comp = "field" /\ fkind = "value" /\ farg.k = "list"
        /\ fcalled = "_parse_interests") =>
        LET kept == NonEmptyItems(farg.items)
        IN  IF kept = {}
            THEN fresult = NoneV
            ELSE fresult = Lst([j \in 1..Cardinality(kept) |->
                                   Str(PyStr(SelectAt(farg.items, kept)[j]))])

\* The value a raw record holds under the first of these spellings whose
\* value is not empty, None when it holds none.
FirstSpelled(raw_user, spellings) ==
    LET held == {i \in DOMAIN spellings : ~NamedEmpty(raw_user[spellings[i]])}
    IN  IF held = {} THEN NoneV ELSE raw_user[spellings[Ascending(held)[1]]]

\* C24: in the record transform_single_user returns, name and birthdate are
\* made of the value the raw record holds under the field's own name, and of
\* the value under an alternate spelling only when that one is absent or
\* empty.
C24_OwnNameReadFirst ==
    (comp = "field" /\ fcalled = "transform_single_user" /\ fresult.ok) =>
        /\ fresult.user_model.name =
              _clean_string_field(FirstSpelled(farg, <<"name", "displayName">>))
        /\ fresult.user_model.birthdate =
              _parse_datetime(FirstSpelled(farg, <<"birthdate", "birthDate", "birth_date">>))

\* C25: _format_array_for_postgres makes one text value of a list, and None
\* of None, of the empty list and of a list whose elements are all None.
C25_NullOnlyListIsNull ==
    (comp = "field" /\ fcalled = "_format_array_for_postgres"
        /\ (farg = NoneV \/ farg.k = "list")) =>
        IF farg = NoneV \/ \A i \in DOMAIN farg.items : farg.items[i] = NoneV
        THEN fresult = NoneV
        ELSE fresult.k = "str"

\* C26: the row read back after the insert of a user holds, in every field
\* in which the user holds a value, that value (birthdate, interests and
\* the datetimes included).
C26_RoundTrip ==
    (comp = "field" /\ fcalled = "_insert_single_user") =>
        \A key \in DOMAIN farg :
            farg[key] # NoneV => fresult[key] = farg[key]

-----------------------------------------------------------------------------
(* Every component together: a behaviour exercises one of them. *)

Init ==
    InitResolver \/ InitDedupe \/ InitTransform \/ InitLoad \/ InitPipeline \/ InitField

Next ==
    NextResolver \/ NextDedupe \/ NextTransform \/ NextLoad \/ NextPipeline \/ NextField

Spec == Init /\ [][Next]_vars

=============================================================================
